---- MODULE Spec2Model ----
(***************************************************************************)
(* MyTune backend (src/server.py): the YouTubeService object, its search   *)
(* and get_stream_url operations with their two helpers, and the Flask     *)
(* handlers in front of them.                                              *)
(*                                                                         *)
(* Python values are represented as follows.                               *)
(*   str   [str |-> <<c1, ..., cn>>]   a sequence of one-character strings *)
(*   list  [items |-> <<v1, ..., vn>>]                                     *)
(*   dict  a record whose DOMAIN is the set of keys that are present       *)
(*   None  [py_none |-> TRUE]                                              *)
(*   int   an integer, bool a BOOLEAN                                      *)
(* yt_dlp is not part of the repository: what extract_info answers is the  *)
(* variable provider, chosen in Init and read by the operations.           *)
(***************************************************************************)
EXTENDS Integers, Sequences, FiniteSets, TLC

VARIABLES
    ydl_opts,       \* youtube_service.ydl_opts, the only field of the service
    provider,       \* what yt_dlp answers: [search |-> outcome, info |-> outcome]
    request,        \* the request (or call) being answered
    response,       \* the answer to it
    service_call,   \* the YouTubeService method call made while answering it, or None
    provider_call,  \* the extract_info call made while answering it, or None
    first_search    \* history: request, arguments and result of the first search call

vars == <<ydl_opts, provider, request, response, service_call, provider_call, first_search>>

(***************************************************************************)
(* Bounds of the model.                                                    *)
(***************************************************************************)
MaxTitleLen == 5
MaxThumbs == 2
MaxDim == 2
MaxFormats == 2
MaxEntries == 2
MaxLimitLen == 2

(***************************************************************************)
(* Python values.                                                          *)
(***************************************************************************)
None == [py_none |-> TRUE]
S(chars) == [str |-> chars]
L(items) == [items |-> items]
EmptyDict == [k \in {} |-> None]

IsStr(v) == DOMAIN v = {"str"}
IsList(v) == DOMAIN v = {"items"}

\* bool(v) for None, str, list and dict values
Truthy(v) ==
    /\ v # None
    /\ DOMAIN v # {}
    /\ (IsStr(v) => v.str # <<>>)
    /\ (IsList(v) => v.items # <<>>)

\* d.get(k, default)
Get(d, k, default) == IF k \in DOMAIN d THEN d[k] ELSE default

\* {**a, **b}
Merge(a, b) == [k \in DOMAIN a \cup DOMAIN b |-> IF k \in DOMAIN b THEN b[k] ELSE a[k]]

Restrict(d, keys) == [k \in keys |-> d[k]]

\* all dicts that carry some of the keys of a record of full, with its values
OptionalKeys(full) == UNION {{Restrict(d, keys) : keys \in SUBSET DOMAIN d} : d \in full}

SeqsUpTo(set, n) == UNION {[1..k -> set] : k \in 0..n}

Whitespace == {" "}

RECURSIVE lstrip(_)
lstrip(s) == IF s # <<>> /\ Head(s) \in Whitespace THEN lstrip(Tail(s)) ELSE s

RECURSIVE rstrip(_)
rstrip(s) == IF s # <<>> /\ s[Len(s)] \in Whitespace THEN rstrip(SubSeq(s, 1, Len(s) - 1)) ELSE s

\* str.strip()
strip(s) == rstrip(lstrip(s))

\* s.find(sep): the index of the leftmost occurrence of sep in s, 0 if none
RECURSIVE find_from(_, _, _)
find_from(s, sep, i) ==
    IF i + Len(sep) - 1 > Len(s) THEN 0
    ELSE IF SubSeq(s, i, i + Len(sep) - 1) = sep THEN i
    ELSE find_from(s, sep, i + 1)

find(s, sep) == find_from(s, sep, 1)

\* s.rfind(sep): the index of the rightmost occurrence, 0 if none
RECURSIVE rfind_from(_, _, _)
rfind_from(s, sep, i) ==
    IF i < 1 THEN 0
    ELSE IF SubSeq(s, i, i + Len(sep) - 1) = sep THEN i
    ELSE rfind_from(s, sep, i - 1)

\* sep in s
contains(s, sep) == find(s, sep) # 0

\* s.split(sep, 1) for s that contains sep
split_once(s, sep) ==
    LET i == find(s, sep)
    IN  <<SubSeq(s, 1, i - 1), SubSeq(s, i + Len(sep), Len(s))>>

\* s.rsplit(sep, 1): the split at the last occurrence
rsplit_once(s, sep) ==
    LET i == rfind_from(s, sep, Len(s) - Len(sep) + 1)
    IN  <<SubSeq(s, 1, i - 1), SubSeq(s, i + Len(sep), Len(s))>>

(***************************************************************************)
(* String literals of the source.                                          *)
(***************************************************************************)
Unknown == S(<<"U", "n", "k", "n", "o", "w", "n">>)
UnknownArtist == S(<<"U", "n", "k", "n", "o", "w", "n", " ", "A", "r", "t", "i", "s", "t">>)
Separator == <<" ", "-", " ">>
CodecNone == S(<<"n", "o", "n", "e">>)
EmptyStr == S(<<>>)

(***************************************************************************)
(* YouTubeService._get_best_thumbnail                                      *)
(***************************************************************************)
\* the sort key: x.get('width', 0) * x.get('height', 0)
resolution(x) == Get(x, "width", 0) * Get(x, "height", 0)

\* a step of a descending sort that is not stable: x goes before its equals
RECURSIVE insert_desc_unstable(_, _)
insert_desc_unstable(sorted, x) ==
    IF sorted = <<>> THEN <<x>>
    ELSE IF resolution(Head(sorted)) > resolution(x)
         THEN <<Head(sorted)>> \o insert_desc_unstable(Tail(sorted), x)
         ELSE <<x>> \o sorted

\* one step of a stable descending sort: x goes after every element whose
\* key is at least its own
RECURSIVE insert_desc(_, _)
insert_desc(sorted, x) ==
    IF sorted = <<>> THEN <<x>>
    ELSE IF resolution(Head(sorted)) >= resolution(x)
         THEN <<Head(sorted)>> \o insert_desc(Tail(sorted), x)
         ELSE <<x>> \o sorted

\* sorted(thumbnails, key=..., reverse=True)
RECURSIVE sorted_desc(_)
sorted_desc(items) ==
    IF items = <<>> THEN <<>>
    ELSE insert_desc(sorted_desc(SubSeq(items, 1, Len(items) - 1)), items[Len(items)])

_get_best_thumbnail(thumbnails) ==
    IF ~Truthy(thumbnails) THEN EmptyStr
    ELSE LET sorted_thumbs == sorted_desc(thumbnails.items)
         IN  IF sorted_thumbs # <<>> THEN Get(sorted_thumbs[1], "url", EmptyStr) ELSE EmptyStr

(***************************************************************************)
(* YouTubeService._format_track                                            *)
(***************************************************************************)
\* title.rsplit(' - ', 1): the split taken at the last separator
title_parts_last(title) == rsplit_once(title, Separator)

\* title.split(' - ', 1)
title_parts(title) == split_once(title, Separator)

\* the test "video_id is None" in place of "not video_id"
no_video_id_is_none(video_id) == video_id = None

\* not video_id
no_video_id(video_id) == ~Truthy(video_id)

\* (on the entries modelled, whose values are of the expected types, nothing in
\* the try block raises, so the except clause returns nothing here)
_format_track(entry) ==
    LET video_id == Get(entry, "id", None)
        title == Get(entry, "title", Unknown)
        parts == title_parts(title.str)
        split == contains(title.str, Separator)
        artist == IF split THEN S(strip(parts[1]))
                  ELSE IF Truthy(Get(entry, "uploader", None)) THEN entry.uploader
                  ELSE UnknownArtist
    IN  IF no_video_id(video_id) THEN None
        ELSE [id |-> video_id,
              title |-> IF split THEN S(strip(parts[2])) ELSE title,
              artist |-> artist,
              duration |-> Get(entry, "duration", 0),
              thumbnail |-> _get_best_thumbnail(Get(entry, "thumbnails", L(<<>>))),
              videoId |-> video_id]

(***************************************************************************)
(* YouTubeService.__init__ and the provider                                *)
(***************************************************************************)
\* self.ydl_opts as __init__ builds it (the user agent, extractor arguments
\* and HTTP headers are fixed literals, kept here as one key each)
InitialOpts ==
    [format |-> "bestaudio/best",
     quiet |-> TRUE,
     no_warnings |-> TRUE,
     extract_flat |-> FALSE,
     nocheckcertificate |-> TRUE,
     user_agent |-> "Mozilla/5.0",
     extractor_args |-> "youtube: player_client, player_skip",
     http_headers |-> "User-Agent, Accept, Accept-Language, Sec-Fetch-Mode"]

\* what a call of ydl.extract_info does: it raises, or it returns a value
Raises == [exception |-> "DownloadError"]
Returns(v) == [value |-> v]

YTSEARCH == <<"y", "t", "s", "e", "a", "r", "c", "h">>
WatchUrl == <<"h", "t", "t", "p", "s", ":", "/", "/", "w", "w", "w", ".", "y", "o", "u", "t", "u", "b", "e", ".", "c", "o", "m", "/", "w", "a", "t", "c", "h", "?", "v", "=">>

DigitChars == <<"0", "1", "2", "3", "4", "5", "6", "7", "8", "9">>
Digits == {DigitChars[i] : i \in 1..10}
DigitValue(c) == (CHOOSE i \in 1..10 : DigitChars[i] = c) - 1

\* str(n) for an integer n, as the f-string formats max_results
RECURSIVE nat_str(_)
nat_str(n) == IF n < 10 THEN <<DigitChars[n + 1]>> ELSE nat_str(n \div 10) \o <<DigitChars[(n % 10) + 1]>>

int_str(n) == IF n < 0 THEN <<"-">> \o nat_str(0 - n) ELSE nat_str(n)

(***************************************************************************)
(* YouTubeService.search                                                   *)
(***************************************************************************)
\* search_opts = {**self.ydl_opts, 'extract_flat': True, 'default_search': 'ytsearch'}
search_opts(opts) == Merge(opts, [extract_flat |-> TRUE, default_search |-> "ytsearch"])

\* self.ydl_opts after search has run (search builds a new dict)
search_self_ydl_opts_updated(opts) == search_opts(opts)

search_self_ydl_opts(opts) == opts

\* the extract_info call of search
search_call(opts, query, max_results) ==
    [opts |-> search_opts(opts),
     target |-> S(YTSEARCH \o int_str(max_results) \o <<":">> \o query.str),
     download |-> FALSE]

\* the loop over result['entries']
RECURSIVE tracks_of(_)
tracks_of(entries) ==
    IF entries = <<>> THEN <<>>
    ELSE LET entry == Head(entries)
             track == IF Truthy(entry) THEN _format_track(entry) ELSE None
         IN  (IF Truthy(entry) /\ Truthy(track) THEN <<track>> ELSE <<>>)
             \o tracks_of(Tail(entries))

\* an except clause that lets the failure through
search_on_error_raise == [exception |-> "DownloadError"]

\* what the except clause of search returns
search_on_error == L(<<>>)

\* the list search returns when extract_info answers outcome
search(outcome) ==
    IF "exception" \in DOMAIN outcome THEN search_on_error
    ELSE LET result == outcome.value
         IN  IF ~Truthy(result) \/ "entries" \notin DOMAIN result THEN L(<<>>)
             ELSE IF ~IsList(result.entries) THEN search_on_error  \* TypeError in the for
             ELSE L(tracks_of(result.entries.items))

(***************************************************************************)
(* YouTubeService.get_stream_url                                           *)
(***************************************************************************)
get_stream_url_call(opts, video_id) ==
    [opts |-> opts, target |-> S(WatchUrl \o video_id.str), download |-> FALSE]

\* the test of the for loop, on the audio codec alone
audio_only_acodec(fmt) == Get(fmt, "acodec", None) # CodecNone

\* fmt.get('acodec') != 'none' and fmt.get('vcodec') == 'none'
audio_only(fmt) == Get(fmt, "acodec", None) # CodecNone /\ Get(fmt, "vcodec", None) = CodecNone

\* the for loop: the first format that passes the test, None if there is none
RECURSIVE first_audio_only(_)
first_audio_only(formats) ==
    IF formats = <<>> THEN None
    ELSE IF audio_only(Head(formats)) THEN Head(formats)
    ELSE first_audio_only(Tail(formats))

\* audio_format after lines 106-115
select_format(formats) ==
    LET audio_format == first_audio_only(formats.items)
    IN  IF ~Truthy(audio_format) /\ Truthy(formats) THEN formats.items[1] ELSE audio_format

\* a or b
Or(a, b) == IF Truthy(a) THEN a ELSE b

\* info.get('artist') or info.get('uploader', 'Unknown Artist')
stream_artist(info) == Or(Get(info, "artist", None), Get(info, "uploader", UnknownArtist))

\* the dict get_stream_url returns for info with the format audio_format
stream_info(info, audio_format, video_id) ==
    [streamUrl |-> Get(audio_format, "url", None),
     title |-> Get(info, "title", Unknown),
     artist |-> stream_artist(info),
     duration |-> Get(info, "duration", 0),
     thumbnail |-> _get_best_thumbnail(Get(info, "thumbnails", L(<<>>))),
     videoId |-> video_id]

\* what the except clause of get_stream_url returns
stream_on_error == None

\* what get_stream_url returns when extract_info answers outcome
get_stream_url(outcome, video_id) ==
    IF "exception" \in DOMAIN outcome THEN stream_on_error
    ELSE LET info == outcome.value
             formats == Get(info, "formats", L(<<>>))
         IN  IF ~Truthy(info) THEN None
             ELSE IF ~IsList(formats) THEN stream_on_error  \* TypeError in the for
             ELSE IF ~Truthy(select_format(formats)) THEN None
             ELSE stream_info(info, select_format(formats), video_id)

(***************************************************************************)
(* The Flask handlers                                                      *)
(***************************************************************************)
DefaultLimit == 20

ValueError == [exception |-> "ValueError"]

\* the body of an integer literal: digits, single underscores between them
int_literal(body) ==
    /\ body # <<>>
    /\ \A i \in 1..Len(body) :
        \/ body[i] \in Digits
        \/ /\ body[i] = "_"
           /\ 1 < i
           /\ i < Len(body)
           /\ body[i - 1] \in Digits
           /\ body[i + 1] \in Digits

RECURSIVE digits_value(_, _)
digits_value(body, acc) ==
    IF body = <<>> THEN acc
    ELSE IF Head(body) = "_" THEN digits_value(Tail(body), acc)
    ELSE digits_value(Tail(body), 10 * acc + DigitValue(Head(body)))

\* int(text) for a str: surrounding whitespace is dropped, one sign is allowed
py_int(text) ==
    LET t == strip(text)
        signed == t # <<>> /\ Head(t) \in {"+", "-"}
        body == IF signed THEN Tail(t) ELSE t
        magnitude == digits_value(body, 0)
    IN  IF ~int_literal(body) THEN ValueError
        ELSE [value |-> IF signed /\ Head(t) = "-" THEN 0 - magnitude ELSE magnitude]

\* int(request.args.get('limit', 20))
limit_of(args) == IF "limit" \in DOMAIN args THEN py_int(args.limit.str) ELSE [value |-> DefaultLimit]

\* what Flask answers when a handler raises
InternalServerError == [status |-> 500, body |-> [error |-> "Internal Server Error"]]

NoRequest == [endpoint |-> "none"]
NoResponse == [status |-> 0]

\* GET /api/search
SearchRequest(args) ==
    LET query == Get(args, "q", EmptyStr)
        limit == limit_of(args)
        results == search(provider.search)
    IN  /\ request' = [endpoint |-> "/api/search", args |-> args]
        /\ IF "exception" \in DOMAIN limit
           THEN /\ response' = InternalServerError
                /\ service_call' = None
                /\ provider_call' = None
                /\ UNCHANGED <<ydl_opts, first_search>>
           ELSE IF ~Truthy(query)
           THEN /\ response' = [status |-> 400, body |-> [error |-> "Query parameter required"]]
                /\ service_call' = None
                /\ provider_call' = None
                /\ UNCHANGED <<ydl_opts, first_search>>
           ELSE /\ service_call' = [method |-> "search", query |-> query, max_results |-> limit.value]
                /\ provider_call' = search_call(ydl_opts, query, limit.value)
                /\ ydl_opts' = search_self_ydl_opts(ydl_opts)
                /\ response' = IF "exception" \in DOMAIN results
                               THEN InternalServerError
                               ELSE [status |-> 200,
                                     body |-> [results |-> results, count |-> Len(results.items)]]
                /\ first_search' = IF first_search = None
                                   THEN [args |-> args, query |-> query,
                                         max_results |-> limit.value, results |-> results]
                                   ELSE first_search
        /\ UNCHANGED provider

\* GET /api/stream/<video_id>
StreamRequest(video_id) ==
    LET stream_data == get_stream_url(provider.info, video_id)
    IN  /\ request' = [endpoint |-> "/api/stream", video_id |-> video_id]
        /\ service_call' = [method |-> "get_stream_url", video_id |-> video_id]
        /\ provider_call' = get_stream_url_call(ydl_opts, video_id)
        /\ response' = IF "exception" \in DOMAIN stream_data
                       THEN InternalServerError
                       ELSE IF ~Truthy(stream_data)
                       THEN [status |-> 404, body |-> [error |-> "Failed to get stream URL"]]
                       ELSE [status |-> 200, body |-> stream_data]
        /\ UNCHANGED <<ydl_opts, provider, first_search>>

\* GET /api/health
Health ==
    /\ request' = [endpoint |-> "/api/health"]
    /\ response' = [status |-> 200, body |-> [status |-> "ok", service |-> "MyTune Backend"]]
    /\ service_call' = None
    /\ provider_call' = None
    /\ UNCHANGED <<ydl_opts, provider, first_search>>

\* GET /
Index ==
    /\ request' = [endpoint |-> "/"]
    /\ response' = [status |-> 200, body |-> [name |-> "MyTune Backend API", version |-> "1.0.0"]]
    /\ service_call' = None
    /\ provider_call' = None
    /\ UNCHANGED <<ydl_opts, provider, first_search>>

(***************************************************************************)
(* Inputs                                                                  *)
(***************************************************************************)
Str1(c) == S(<<c>>)

LimitChars == {"1", "-", " ", "x"}
LimitTexts == {S(t) : t \in SeqsUpTo(LimitChars, MaxLimitLen)}
Queries == {EmptyStr, Str1("q")}
SearchArgs == OptionalKeys([q : Queries, limit : LimitTexts])
SearchArgsFew == OptionalKeys([q : Queries, limit : {Str1("1"), S(<<" ", "1">>), Str1("x")}])
VideoIds == {Str1("v"), Str1("w")}

\* raw entries of a flat search
Ids == {EmptyStr, Str1("1"), Str1("2")}
Entries == OptionalKeys([id : Ids, title : {Str1("a")}]) \cup {None}

\* formats of a metadata answer: the URL of a format names its position
Codecs == {CodecNone, S(<<"a", "a", "c">>)}
FormatsAt(i) == OptionalKeys([acodec : Codecs, vcodec : Codecs, url : {EmptyStr, Str1(DigitChars[i + 1])}])
RECURSIVE FormatListsOfLen(_)
FormatListsOfLen(n) == IF n = 0 THEN {<<>>} ELSE {Append(fs, f) : fs \in FormatListsOfLen(n - 1), f \in FormatsAt(n)}
FormatLists == UNION {FormatListsOfLen(n) : n \in 0..MaxFormats}

AudioFormat == [acodec |-> S(<<"a", "a", "c">>), vcodec |-> CodecNone, url |-> Str1("u")]
Names == {EmptyStr, Str1("A"), Str1("B")}

\* the provider of the main specification: every shape of answer, few of each
SearchOutcomes ==
    {Raises, Returns(None), Returns(EmptyDict), Returns([id |-> Str1("1")]), Returns([entries |-> None]),
     Returns([entries |-> L(<<>>)]),
     Returns([entries |-> L(<<[id |-> Str1("1"), title |-> Str1("a")]>>)])}
InfoOutcomes ==
    {Raises, Returns(None), Returns(EmptyDict), Returns([formats |-> None]), Returns([title |-> Str1("a")]),
     Returns([formats |-> L(<<AudioFormat>>), uploader |-> Str1("A")])}

Init ==
    /\ ydl_opts = InitialOpts
    /\ provider \in [search : SearchOutcomes, info : InfoOutcomes]
    /\ request = NoRequest
    /\ response = NoResponse
    /\ service_call = None
    /\ provider_call = None
    /\ first_search = None

Next ==
    \/ \E args \in SearchArgsFew : SearchRequest(args)
    \/ \E video_id \in VideoIds : StreamRequest(video_id)
    \/ Health
    \/ Index

Spec == Init /\ [][Next]_vars

(***************************************************************************)
(* /api/search under every query string, against two providers             *)
(***************************************************************************)
InitHttp ==
    /\ Init
    /\ provider.search \in {Raises, Returns([entries |-> L(<<[id |-> Str1("1"), title |-> Str1("a")]>>)])}
    /\ provider.info = Raises

NextHttp == \E args \in SearchArgs : SearchRequest(args)

SpecHttp == InitHttp /\ [][NextHttp]_vars

(***************************************************************************)
(* /api/search against every list of raw entries                           *)
(***************************************************************************)
EntryLists == SeqsUpTo(Entries, MaxEntries)

InitSearch ==
    /\ ydl_opts = InitialOpts
    /\ provider \in [search : {Returns([entries |-> L(es)]) : es \in EntryLists}, info : {Raises}]
    /\ request = NoRequest
    /\ response = NoResponse
    /\ service_call = None
    /\ provider_call = None
    /\ first_search = None

NextSearch == \E args \in {[q |-> Str1("q")], [q |-> Str1("q"), limit |-> Str1("1")]} : SearchRequest(args)

SpecSearch == InitSearch /\ [][NextSearch]_vars

(***************************************************************************)
(* /api/stream against every list of formats and every artist and uploader *)
(***************************************************************************)
Infos ==
    {[formats |-> L(fs)] : fs \in FormatLists}
    \cup {Merge([formats |-> L(<<AudioFormat>>)], d) : d \in OptionalKeys([artist : Names, uploader : Names])}

InitStream ==
    /\ ydl_opts = InitialOpts
    /\ provider \in [search : {Raises}, info : {Returns(i) : i \in Infos}]
    /\ request = NoRequest
    /\ response = NoResponse
    /\ service_call = None
    /\ provider_call = None
    /\ first_search = None

NextStream == \E video_id \in VideoIds : StreamRequest(video_id)

SpecStream == InitStream /\ [][NextStream]_vars

(***************************************************************************)
(* _get_best_thumbnail on every list of candidates                         *)
(***************************************************************************)
Dims == 1..MaxDim
ThumbnailsAt(i) == OptionalKeys([url : {Str1(DigitChars[i + 1])}, width : Dims, height : Dims])
RECURSIVE ThumbnailListsOfLen(_)
ThumbnailListsOfLen(n) == IF n = 0 THEN {<<>>} ELSE {Append(ts, x) : ts \in ThumbnailListsOfLen(n - 1), x \in ThumbnailsAt(n)}
ThumbnailLists == UNION {ThumbnailListsOfLen(n) : n \in 0..MaxThumbs}

InitThumb ==
    /\ ydl_opts = InitialOpts
    /\ provider = [search |-> Raises, info |-> Raises]
    /\ request \in {[call |-> "_get_best_thumbnail", thumbnails |-> L(ts)] : ts \in ThumbnailLists}
    /\ response = NoResponse
    /\ service_call = None
    /\ provider_call = None
    /\ first_search = None

GetBestThumbnailCall ==
    /\ response = NoResponse
    /\ response' = [returned |-> _get_best_thumbnail(request.thumbnails)]
    /\ UNCHANGED <<ydl_opts, provider, request, service_call, provider_call, first_search>>

SpecThumb == InitThumb /\ [][GetBestThumbnailCall]_vars

(***************************************************************************)
(* _format_track on every title                                            *)
(***************************************************************************)
TitleChars == {"a", " ", "-"}
Titles == {S(t) : t \in SeqsUpTo(TitleChars, MaxTitleLen)}
TrackEntries == {Merge([id |-> Str1("1")], d) : d \in OptionalKeys([title : Titles, uploader : {EmptyStr, Str1("U")}])}

InitTrack ==
    /\ ydl_opts = InitialOpts
    /\ provider = [search |-> Raises, info |-> Raises]
    /\ request \in {[call |-> "_format_track", entry |-> e] : e \in TrackEntries}
    /\ response = NoResponse
    /\ service_call = None
    /\ provider_call = None
    /\ first_search = None

FormatTrackCall ==
    /\ response = NoResponse
    /\ response' = [returned |-> _format_track(request.entry)]
    /\ UNCHANGED <<ydl_opts, provider, request, service_call, provider_call, first_search>>

SpecTrack == InitTrack /\ [][FormatTrackCall]_vars

(***************************************************************************)
(* Properties                                                              *)
(***************************************************************************)
IsSearch == request.endpoint = "/api/search"
IsStream == request.endpoint = "/api/stream"
Answered(info) == "value" \in DOMAIN provider.info /\ provider.info.value = info

\* C1: every record get_stream_url returns has a present, non-empty
\* streamUrl, so /api/stream never answers 200 without one.
C1_StreamUrlPresent ==
    (IsStream /\ response.status = 200) => Truthy(response.body.streamUrl)

\* C2: from a non-empty format list get_stream_url takes the first format, in
\* the provider's order, whose acodec is not "none" and whose vcodec is
\* "none", and the first format of the list when there is no such format.
IsAudioOnly(fmt) ==
    /\ ~("acodec" \in DOMAIN fmt /\ fmt.acodec = CodecNone)
    /\ "vcodec" \in DOMAIN fmt
    /\ fmt.vcodec = CodecNone

ExpectedFormat(formats) ==
    IF \E i \in 1..Len(formats) : IsAudioOnly(formats[i])
    THEN formats[CHOOSE i \in 1..Len(formats) :
                    /\ IsAudioOnly(formats[i])
                    /\ \A j \in 1..(i - 1) : ~IsAudioOnly(formats[j])]
    ELSE formats[1]

UrlOf(fmt) == IF "url" \in DOMAIN fmt THEN fmt.url ELSE None

HasId(entry) == entry # None /\ "id" \in DOMAIN entry /\ entry.id # EmptyStr

IdsOf(items) == [i \in 1..Len(items) |-> items[i].id]

C3_NoTrackWithoutId ==
    IsSearch =>
        /\ response.status = 200
        /\ \A i \in 1..Len(response.body.results.items) :
               /\ response.body.results.items[i].id # None
               /\ response.body.results.items[i].id # EmptyStr
        /\ IdsOf(response.body.results.items)
               = IdsOf(SelectSeq(provider.search.value.entries.items, HasId))

C3_Witness ==
    /\ IsSearch
    /\ provider.search.value.entries.items = <<[id |-> EmptyStr, title |-> Str1("a")], [id |-> Str1("2")]>>
    /\ response.status = 200
    /\ IdsOf(response.body.results.items) = <<Str1("2")>>

\* C4: when the provider call raises or answers without a usable result,
\* search returns the empty list and get_stream_url returns None; the
\* failure does not reach the caller as an error.
SearchFails(outcome) ==
    \/ "exception" \in DOMAIN outcome
    \/ /\ "value" \in DOMAIN outcome
       /\ \/ outcome.value \in {None, EmptyDict}
          \/ "entries" \notin DOMAIN outcome.value
          \/ outcome.value.entries = None

InfoFails(outcome) ==
    \/ "exception" \in DOMAIN outcome
    \/ /\ "value" \in DOMAIN outcome
       /\ \/ outcome.value \in {None, EmptyDict}
          \/ ("formats" \in DOMAIN outcome.value /\ outcome.value.formats = None)

C4_FailSoft ==
    /\ (IsSearch /\ service_call # None /\ SearchFails(provider.search)) =>
           (response.status = 200 /\ response.body.results = L(<<>>))
    /\ (IsStream /\ InfoFails(provider.info)) => response.status = 404

C4_Witness ==
    /\ IsSearch
    /\ provider.search = Raises
    /\ provider_call # None
    /\ response = [status |-> 200, body |-> [results |-> L(<<>>), count |-> 0]]

\* C5: for /api/search with a non-empty query, search is called with 20 when
\* limit is absent or is no integer, and with the integer otherwise; a limit
\* that is no integer never makes the request fail.
C5_LimitDefaultsTo20 ==
    (IsSearch /\ Truthy(Get(request.args, "q", EmptyStr))) =>
        /\ response.status # 500
        /\ service_call # None
        /\ service_call.max_results =
               IF "limit" \in DOMAIN request.args /\ "value" \in DOMAIN py_int(request.args.limit.str)
               THEN py_int(request.args.limit.str).value
               ELSE DefaultLimit

\* C6: /api/search with a missing or empty q is answered 400, whatever limit
\* is, and the provider is not called.
C6_EmptyQueryRejected ==
    (IsSearch /\ ("q" \notin DOMAIN request.args \/ request.args.q = EmptyStr)) =>
        (response.status = 400 /\ provider_call = None)

\* C7: _get_best_thumbnail returns '' for no candidates, and otherwise the
\* URL ('' if it has none) of the first candidate, in the original order,
\* whose width*height is the maximum, a missing width or height being 0.
Side(thumb, k) == IF k \in DOMAIN thumb THEN thumb[k] ELSE 0
Area(thumb) == Side(thumb, "width") * Side(thumb, "height")

C7_BestThumbnail ==
    response # NoResponse =>
        LET ts == request.thumbnails.items
        IN  IF ts = <<>>
            THEN response.returned = EmptyStr
            ELSE \E i \in 1..Len(ts) :
                    /\ \A j \in 1..Len(ts) : Area(ts[j]) <= Area(ts[i])
                    /\ \A j \in 1..(i - 1) : Area(ts[j]) < Area(ts[i])
                    /\ response.returned = (IF "url" \in DOMAIN ts[i] THEN ts[i].url ELSE EmptyStr)

C7_Witness ==
    /\ response # NoResponse
    /\ request.thumbnails.items =
           <<[url |-> Str1("1"), width |-> 1, height |-> 2],
             [url |-> Str1("2"), width |-> 2, height |-> 1]>>
    /\ response.returned = Str1("1")

\* C8: the Track of an entry with an id has, when the raw title contains
\* " - ", the trimmed text before the first " - " as artist and the trimmed
\* text after it as title; otherwise the raw title ("Unknown" if absent) as
\* title and the uploader, if present and non-empty, else "Unknown Artist",
\* as artist.
SepAt(s, i) == i + 2 <= Len(s) /\ s[i] = " " /\ s[i + 1] = "-" /\ s[i + 2] = " "

Trimmed(s) ==
    LET inked == {i \in 1..Len(s) : s[i] # " "}
    IN  IF inked = {} THEN <<>>
        ELSE SubSeq(s, CHOOSE i \in inked : \A j \in inked : i <= j,
                       CHOOSE i \in inked : \A j \in inked : j <= i)

C8_TitleArtistSplit ==
    response # NoResponse =>
        LET entry == request.entry
            track == response.returned
            raw == IF "title" \in DOMAIN entry THEN entry.title ELSE Unknown
        IN  /\ track # None
            /\ IF \E i \in 1..Len(raw.str) : SepAt(raw.str, i)
               THEN LET first == CHOOSE i \in 1..Len(raw.str) :
                                     SepAt(raw.str, i) /\ \A j \in 1..(i - 1) : ~SepAt(raw.str, j)
                    IN  /\ track.artist = S(Trimmed(SubSeq(raw.str, 1, first - 1)))
                        /\ track.title = S(Trimmed(SubSeq(raw.str, first + 3, Len(raw.str))))
               ELSE /\ track.title = raw
                    /\ track.artist = IF "uploader" \in DOMAIN entry /\ entry.uploader # EmptyStr
                                      THEN entry.uploader
                                      ELSE UnknownArtist

C8_Witness ==
    /\ response # NoResponse
    /\ "title" \in DOMAIN request.entry
    /\ request.entry.title = S(<<" ", "-", " ", "-", " ">>)
    /\ response.returned.artist = EmptyStr
    /\ response.returned.title = Str1("-")

\* C9: the artist of a StreamInfo is the metadata's artist if present and
\* non-empty, else its uploader if present and non-empty, else "Unknown
\* Artist"; it is never None or empty.
C9_ArtistNeverEmpty ==
    (IsStream /\ response.status = 200) =>
        LET info == provider.info.value
        IN  /\ response.body.artist \notin {None, EmptyStr}
            /\ response.body.artist =
                   IF "artist" \in DOMAIN info /\ info.artist # EmptyStr THEN info.artist
                   ELSE IF "uploader" \in DOMAIN info /\ info.uploader # EmptyStr THEN info.uploader
                   ELSE UnknownArtist

====
